---- MODULE Spec2Model ----
(***************************************************************************)
(* Model of the two trading bots of delta_ema_200_saas:                    *)
(*   - AccurateRSISMABot (src/app/bot/rsi_sma_bot.py), variant "rsi"       *)
(*   - EMAStrategyBot    (src/bot/tradeexecute.py),    variant "ema"       *)
(* One process runs exactly one of the two bots; `variant` says which.     *)
(*                                                                         *)
(* Numbers.  Prices are integers.  Python floats are modelled by exact     *)
(* rationals: avg_gain/avg_loss share one denominator (avg.d), current_ema *)
(* is a fraction n/d.  RSI and SMA values, which the code rounds to two    *)
(* decimals, are integers in hundredths (3125 is 31.25).  Python's None is *)
(* the integer None (-1) for numeric fields and "NONE" for pending_signal. *)
(* Time is in epoch seconds.                                               *)
(*                                                                         *)
(* Logging.  The RSI bot's _log prints and forwards the line to the        *)
(* notifier; the EMA bot's prints and appends to a log file.  The bot      *)
(* actions take the notifier attribute as present, so that _log returns    *)
(* normally and changes no bot state.  (AccurateRSISMABot never assigns    *)
(* self.telegram: with the attribute missing, the first _log raises        *)
(* AttributeError inside __init__ and the bot never reaches run; the       *)
(* operator log states what _log does with a message in each bot.)         *)
(* The candle_timestamps deque (written, never read) is omitted.           *)
(***************************************************************************)
EXTENDS Integers, Sequences, FiniteSets, TLC

\* ------------------------------------------------------------------ bounds
RsiPeriod == 2
SmaPeriod == 2
CloseBuffer == 2
EmaPeriod == 2
RsiMaxTicks == 3
EmaMaxTicks == 1
MaxClockSteps == 24
WilderExtra == 2

\* ------------------------------------------------------- program constants
\* (defaults of Config; order sizes are counted in lots)
timeframe_minutes == 60
TIMEFRAME_MINUTES == 1
lot_size == 1
TradeHistoryMax == 50

None == 0 - 1
Closes == {10, 11}
LivePrices == {12}
\* the top of book every successful order-book fetch returns
Book == [best_bid |-> 100, best_ask |-> 101]
NoBook == [best_bid |-> 0, best_ask |-> 0]

VARIABLES
  variant,            \* "rsi" or "ema": which bot this process runs
  pc,                 \* position of the poll loop inside the current tick
  now,                \* wall clock, epoch seconds
  current_price,      \* last live price fetched for display
  last_candle_time,   \* start time of the last candle applied, or None
  new_candle,         \* candle handed from the feed to the indicator update
  candle_closes,      \* rsi: bounded close history
  avg,                \* rsi: avg_gain = avg.g/avg.d, avg_loss = avg.l/avg.d; d = 0 is None
  rsi_initialized,
  rsi_history,        \* rsi: bounded history of RSI values (hundredths)
  current_rsi, prev_rsi, current_sma, prev_sma,
  pending_signal,     \* rsi: "NONE", "LONG" or "SHORT"
  detect_held,        \* observation: position the venue reported to the last detect_crossover
  detect_venue,       \* observation: position the venue really held at that moment
  price_history,      \* ema: bounded close history
  current_ema,        \* ema: fraction [n, d]; the initial integer 0 is [n |-> 0, d |-> 1]
  trade_count,
  trade_history,      \* bounded audit trail of TradeRecords
  last_exec,          \* observation: what the last Execute of this tick did
  executed,           \* observation: completed-candle boundaries an Execute ran at
  re_executed,        \* observation: boundaries with more than one Execute
  applied,            \* observation: candle times folded into current_ema
  re_applied,         \* observation: candle times folded in more than once
  interrupt,          \* what became of a KeyboardInterrupt: "none" while none was delivered
  arg,                \* arguments of a function applied on its own
  result              \* what that function returned

vars == <<variant, pc, now, current_price, last_candle_time,
          new_candle, candle_closes, avg, rsi_initialized, rsi_history,
          current_rsi, prev_rsi, current_sma, prev_sma, pending_signal,
          detect_held, detect_venue, price_history, current_ema, trade_count, trade_history,
          last_exec, executed, re_executed, applied, re_applied,
          interrupt, arg, result>>

rsiVars == <<candle_closes, avg, rsi_initialized, rsi_history,
             current_rsi, prev_rsi, current_sma, prev_sma>>
emaVars == <<price_history, current_ema>>
obsVars == <<detect_held, detect_venue, executed, re_executed, applied, re_applied>>
fnVars == <<arg, result>>

\* --------------------------------------------------------- small helpers
Max(a, b) == IF a >= b THEN a ELSE b
Abs(x) == IF x < 0 THEN -x ELSE x

RECURSIVE GCD(_, _)
GCD(a, b) == IF b = 0 THEN a ELSE GCD(b, a % b)

RECURSIVE SumSeq(_)
SumSeq(s) == IF s = <<>> THEN 0 ELSE Head(s) + SumSeq(Tail(s))

\* the faulty alternative: a plain list, which only grows
ListAppend(q, x, m) == Append(q, x)

\* deque(maxlen = m).append(x): the oldest entry is evicted when full
DequeAppend(q, x, m) ==
  LET r == Append(q, x)
  IN  IF Len(r) > m THEN SubSeq(r, Len(r) - m + 1, Len(r)) ELSE r

\* deque(items, maxlen = m): only the last m items are kept
DequeOf(s, m) == IF Len(s) > m THEN SubSeq(s, Len(s) - m + 1, Len(s)) ELSE s

\* Python round(): nearest, ties to even, of the non-negative fraction n/d
RoundHalfEven(n, d) ==
  LET q == n \div d
      r == n % d
  IN  IF 2 * r < d THEN q
      ELSE IF 2 * r > d THEN q + 1
      ELSE IF q % 2 = 0 THEN q ELSE q + 1

\* ------------------------------------------------------------- positions
\* get_current_position decodes the signed size the venue reports
Side(size) == IF size > 0 THEN "LONG" ELSE IF size < 0 THEN "SHORT" ELSE "FLAT"
FlatPos == [position |-> "FLAT", size |-> 0]

\* resp is "ok" (HTTP 200, success, data for this product) or "fail"
\* (exception, non-200 response, or success = false)
get_current_position(resp, venue) ==
  IF resp = "ok" /\ venue # 0
  THEN [position |-> Side(venue), size |-> Abs(venue)]
  ELSE FlatPos

\* --------------------------------------------------------- RSI indicators
max_closes == RsiPeriod + CloseBuffer

Gain(closes, i) == Max(closes[i + 1] - closes[i], 0)
Loss(closes, i) == Max(closes[i] - closes[i + 1], 0)

Reduce(a) ==
  LET k == GCD(GCD(a.g, a.l), a.d)
  IN  IF k <= 1 THEN a ELSE [g |-> a.g \div k, l |-> a.l \div k, d |-> a.d \div k]

\* avg = (avg * (period - 1) + value) / period, for gain and loss together
WilderStep(a, gain, loss) ==
  Reduce([g |-> a.g * (RsiPeriod - 1) + gain * a.d,
          l |-> a.l * (RsiPeriod - 1) + loss * a.d,
          d |-> a.d * RsiPeriod])

RECURSIVE WilderAdvance(_, _, _)
WilderAdvance(a, closes, i) ==
  IF i > Len(closes) - 1 THEN a
  ELSE WilderAdvance(WilderStep(a, Gain(closes, i), Loss(closes, i)), closes, i + 1)

RECURSIVE SumGain(_, _)
SumGain(closes, i) == IF i = 0 THEN 0 ELSE Gain(closes, i) + SumGain(closes, i - 1)
RECURSIVE SumLoss(_, _)
SumLoss(closes, i) == IF i = 0 THEN 0 ELSE Loss(closes, i) + SumLoss(closes, i - 1)

\* the faulty alternative: no loss and no gain reads as an RSI of 0
RsiZeroWhenFlat(a) ==
  IF a.g + a.l = 0 THEN 0 ELSE RoundHalfEven(10000 * a.g, a.g + a.l)

\* the faulty alternative: the relative strength itself, as a percentage
RsAsRsi(a) ==
  IF a.l = 0 THEN 10000 ELSE RoundHalfEven(10000 * a.g, a.l)

\* rsi = 100 if avg_loss == 0, else 100 - 100 / (1 + avg_gain / avg_loss),
\* rounded to two decimals
RsiOf(a) ==
  IF a.l = 0 THEN 10000 ELSE RoundHalfEven(10000 * a.g, a.g + a.l)

\* the faulty alternative: the seeding call stops at the seed window and
\* leaves the later steps of its history out
SeedWithoutAdvance(closes, a, init) ==
  IF Len(closes) < RsiPeriod + 1
  THEN [rsi |-> None, avg |-> a, init |-> init]
  ELSE LET a2 == IF ~init
                 THEN Reduce([g |-> SumGain(closes, RsiPeriod),
                              l |-> SumLoss(closes, RsiPeriod),
                              d |-> RsiPeriod])
                 ELSE WilderStep(a, Gain(closes, Len(closes) - 1),
                                    Loss(closes, Len(closes) - 1))
       IN  [rsi |-> RsiOf(a2), avg |-> a2, init |-> TRUE]

\* calculate_rsi_wilder: result [rsi, avg, init]
calculate_rsi_wilder(closes, a, init) ==
  IF Len(closes) < RsiPeriod + 1
  THEN [rsi |-> None, avg |-> a, init |-> init]
  ELSE LET a2 == IF ~init
                 THEN WilderAdvance(Reduce([g |-> SumGain(closes, RsiPeriod),
                                            l |-> SumLoss(closes, RsiPeriod),
                                            d |-> RsiPeriod]),
                                    closes, RsiPeriod + 1)
                 ELSE WilderStep(a, Gain(closes, Len(closes) - 1),
                                    Loss(closes, Len(closes) - 1))
       IN  [rsi |-> RsiOf(a2), avg |-> a2, init |-> TRUE]

\* calculate_sma over a sequence of hundredths
calculate_sma(values) ==
  IF Len(values) < SmaPeriod THEN None
  ELSE LET recent == SubSeq(values, Len(values) - SmaPeriod + 1, Len(values))
       IN  RoundHalfEven(SumSeq(recent), Len(recent))

NoAvg == [g |-> 0, l |-> 0, d |-> 0]

\* the loop of _load_historical_candles over closes[:i], i = period+1 .. len
RECURSIVE LoadRsi(_, _, _, _, _)
LoadRsi(closes, i, a, init, acc) ==
  IF i > Len(closes) THEN [values |-> acc, avg |-> a, init |-> init]
  ELSE LET r == calculate_rsi_wilder(SubSeq(closes, 1, i), a, init)
       IN  LoadRsi(closes, i + 1, r.avg, r.init,
                   IF r.rsi # None THEN Append(acc, r.rsi) ELSE acc)

\* ------------------------------------------------------------------ time
RsiTf == timeframe_minutes * 60
EmaTf == TIMEFRAME_MINUTES * 60
RsiStart == 2 * RsiTf + (RsiTf \div 2)
EmaStart == 4 * EmaTf
Tf == IF variant = "rsi" THEN RsiTf ELSE EmaTf
MaxNow == IF variant = "rsi" THEN RsiStart + RsiMaxTicks * (RsiTf \div 2)
                             ELSE EmaStart + EmaMaxTicks * (EmaTf \div 2)

\* the start of the last completed candle by the wall clock
Boundary == (now \div Tf) * Tf - Tf

\* datetime arithmetic of _get_last_completed_candle_time, in epoch seconds
get_last_completed_candle_time(t, tfm) ==
  LET minute == (t \div 60) % 60
      hourStart == t - (t % 3600)
      minutes == (minute \div tfm) * tfm
  IN  hourStart + minutes * 60 - tfm * 60

\* ------------------------------------------------------------ observations
NoCandle == [time |-> None, close |-> 0]
NoCall == [fn |-> "none"]
NoExec == [signal |-> "NONE", position |-> "NONE", confirmed |-> FALSE,
           book |-> FALSE, close_result |-> "NA", orders |-> <<>>,
           venue_at_open |-> "NA"]
Order(role, side, size, price, ok) ==
  [role |-> role, side |-> side, size |-> size, price |-> price, success |-> ok]

\* what an accepted order does to the venue position if it fills
Filled(venue, side, size) == IF side = "buy" THEN venue + size ELSE venue - size
\* the signed sizes the venue can hold; it is asked afresh before every use
Venues == {0 - 2, 0, 1}

\* ------------------------------------------------------------------ Init
\* __init__: every field as the constructor leaves it before the loads
FreshCommon ==
  /\ current_price = 0
  /\ new_candle = NoCandle
  /\ pending_signal = "NONE"
  /\ detect_held = "NA" /\ detect_venue = "NA"
  /\ trade_count = 0
  /\ trade_history = <<>>
  /\ last_exec = NoExec
  /\ executed = {} /\ re_executed = {}
  /\ interrupt = "none"

\* the constructor returned and run is at the top of its loop
InitCommon == pc = "check" /\ FreshCommon

\* no function is applied on its own while a bot runs
NoCalls == arg = NoCall /\ result = NoCall

RsiFresh ==
  /\ candle_closes = <<>>
  /\ avg = NoAvg
  /\ rsi_initialized = FALSE
  /\ rsi_history = <<>>
  /\ current_rsi = 0 /\ prev_rsi = 0
  /\ current_sma = 0 /\ prev_sma = 0

EmaFresh ==
  /\ price_history = <<>>
  /\ current_ema = [n |-> 0, d |-> 1]
  /\ applied = {} /\ re_applied = {}

HistLen == RsiPeriod + SmaPeriod

\* histories the candle source can hand to _load_historical_candles
RsiHistories == [1..HistLen -> Closes]

\* _load_historical_candles with len(candles) >= rsi_period + sma_period
RsiLoaded(closes) ==
  LET r == LoadRsi(closes, RsiPeriod + 1, NoAvg, FALSE, <<>>)
      hist == DequeOf(r.values, SmaPeriod)
  IN  /\ candle_closes = DequeOf(closes, max_closes)
      /\ last_candle_time = get_last_completed_candle_time(RsiStart, timeframe_minutes)
      /\ avg = r.avg
      /\ rsi_initialized = r.init
      /\ rsi_history = hist
      /\ prev_rsi = IF Len(r.values) >= 2 THEN r.values[Len(r.values) - 1]
                                         ELSE r.values[Len(r.values)]
      /\ current_rsi = r.values[Len(r.values)]
      /\ IF Len(hist) >= SmaPeriod
         THEN /\ prev_sma = calculate_sma(SubSeq(hist, 1, Len(hist) - 1))
              /\ current_sma = calculate_sma(hist)
         ELSE prev_sma = 0 /\ current_sma = 0

\* AccurateRSISMABot.__init__: the historical load succeeded, or returned too
\* few candles (fetch failure included) and left every field as constructed
RsiConstructed ==
  /\ variant = "rsi"
  /\ now = RsiStart
  /\ InitCommon
  /\ EmaFresh
  /\ \/ \E closes \in RsiHistories : RsiLoaded(closes)
     \/ RsiFresh /\ last_candle_time = None

InitRsi == RsiConstructed /\ NoCalls

\* ------------------------------------------------------------ RSI: feed
\* The candle source answers a klines request with a failure or a set of
\* candle start times; the close of the candle that is kept is chosen apart.
RsiCandidates(t) ==
  LET b == get_last_completed_candle_time(t, timeframe_minutes)
  IN  {b - RsiTf, b, b + RsiTf, b + (RsiTf \div 2)}

\* the completed-candle filter of _fetch_binance_candles
RsiAligned(t) == ((t \div 60) % 60) % timeframe_minutes = 0 /\ t % 60 = 0

SetMax(S) == CHOOSE x \in S : \A y \in S : y <= x

\* the faulty alternative: a failed request still hands out a candle
AnswerDespiteFailure(ok, times, close, t) ==
  LET done == {x \in times : RsiAligned(x)
                 /\ x <= get_last_completed_candle_time(t, timeframe_minutes)}
  IN  IF done = {} THEN [time |-> get_last_completed_candle_time(t, timeframe_minutes),
                         close |-> close]
      ELSE [time |-> SetMax(done), close |-> close]

\* _fetch_binance_candles(1): the newest aligned candle not after the last
\* completed boundary, or None (also on a failed request)
fetch_binance_candles(ok, times, close, t) ==
  LET done == {x \in times : RsiAligned(x)
                 /\ x <= get_last_completed_candle_time(t, timeframe_minutes)}
  IN  IF ~ok \/ done = {} THEN NoCandle
      ELSE [time |-> SetMax(done), close |-> close]

\* the faulty alternative: whatever candle the fetch kept is taken as new
AnyFetchedCandle(ok, times, close, t, last) ==
  fetch_binance_candles(ok, times, close, t)

check_for_new_candle(ok, times, close, t, last) ==
  LET boundary == get_last_completed_candle_time(t, timeframe_minutes)
      c == fetch_binance_candles(ok, times, close, t)
  IN  IF boundary # last /\ c # NoCandle /\ c.time = boundary THEN c ELSE NoCandle

\* run, lines 718-719: new_candle = check_for_new_candle()
RsiCheck ==
  /\ variant = "rsi" /\ pc = "check"
  /\ \E ok \in BOOLEAN, times \in SUBSET RsiCandidates(now), close \in Closes :
       LET c == check_for_new_candle(ok, times, close, now, last_candle_time)
       IN  /\ new_candle' = c
           /\ pc' = IF c # NoCandle THEN "update" ELSE "execute"
  /\ last_exec' = NoExec
  /\ detect_held' = "NA" /\ detect_venue' = "NA"
  /\ UNCHANGED <<variant, fnVars, interrupt, now, current_price, last_candle_time,
                 rsiVars, pending_signal, emaVars, trade_count, trade_history,
                 executed, re_executed, applied, re_applied>>

\* ------------------------------------------------------- RSI: crossover
\* the zero-sentinel guard at the top of detect_crossover
CrossoverGuard(prsi, psma) == prsi = 0 \/ psma = 0

\* detect_crossover: the value pending_signal has afterwards
detect_crossover(prsi, psma, crsi, csma, held, pending) ==
  IF CrossoverGuard(prsi, psma) THEN pending
  ELSE IF prsi <= psma /\ crsi > csma
       THEN (IF held = "LONG" THEN pending ELSE "LONG")
  ELSE IF prsi >= psma /\ crsi < csma
       THEN (IF held = "SHORT" THEN pending ELSE "SHORT")
  ELSE pending

\* run, line 720: update_indicators_with_new_candle(new_candle), which ends
\* in detect_crossover.  Formatting a None RSI for the log raises TypeError,
\* which nothing in run catches: the process dies after the assignments.
RsiUpdate ==
  /\ variant = "rsi" /\ pc = "update"
  /\ LET closes == DequeAppend(candle_closes, new_candle.close, max_closes)
         r == calculate_rsi_wilder(closes, avg, rsi_initialized)
         hist == IF r.rsi # None THEN DequeAppend(rsi_history, r.rsi, SmaPeriod)
                                 ELSE rsi_history
         sma == IF r.rsi # None /\ Len(hist) >= SmaPeriod
                THEN calculate_sma(hist) ELSE current_sma
     IN  /\ prev_rsi' = current_rsi
         /\ prev_sma' = current_sma
         /\ candle_closes' = closes
         /\ last_candle_time' = new_candle.time
         /\ current_rsi' = r.rsi
         /\ avg' = r.avg
         /\ rsi_initialized' = r.init
         /\ rsi_history' = hist
         /\ current_sma' = sma
         /\ IF r.rsi = None
            THEN pc' = "crashed" /\ UNCHANGED <<pending_signal, detect_held, detect_venue>>
            ELSE /\ pc' = "execute"
                 /\ \E resp \in {"ok", "fail"}, venue_position \in Venues :
                      LET held == get_current_position(resp, venue_position).position
                      IN  /\ detect_held' = held
                          /\ detect_venue' = Side(venue_position)
                          /\ pending_signal' =
                               detect_crossover(current_rsi, current_sma, r.rsi, sma,
                                                held, pending_signal)
  /\ new_candle' = NoCandle
  /\ UNCHANGED <<variant, fnVars, interrupt, now, current_price, emaVars,
                 trade_count, trade_history, last_exec,
                 executed, re_executed, applied, re_applied>>

\* ------------------------------------------------------------ executing
CloseSide(position) == IF position = "LONG" THEN "sell" ELSE "buy"
EntrySide(signal) == IF signal = "LONG" THEN "buy" ELSE "sell"
\* the faulty alternative: the order rests on its own side of the book
RestPrice(side, book) == IF side = "sell" THEN book.best_ask ELSE book.best_bid
\* a sell takes the best bid, a buy the best ask
TakePrice(side, book) == IF side = "sell" THEN book.best_bid ELSE book.best_ask

\* whether execute_trade places a closing order for the fetched position
RsiCloses(signal, pos) == pos.position # "FLAT"

\* the faulty alternative: a failed close is logged and the open goes ahead
RsiProceedsAnyway(closed, closeOk) == TRUE

\* whether execute_trade goes on to the opening order after its close step
RsiProceeds(closed, closeOk) == ~closed \/ closeOk

\* the faulty alternative: the missing order book goes unnoticed
NoOrderbookIgnored(book) == FALSE

\* execute_trade, lines 631-633: `if not orderbook: return`
NoOrderbook(book) == book = NoBook

\* execute_trade, lines 628-655: the place_limit_order calls it makes, in order
execute_trade(signal, pos, book, closeOk, openOk) ==
  IF NoOrderbook(book) THEN <<>>
  ELSE LET closed == RsiCloses(signal, pos)
           cs == CloseSide(pos.position)
           es == EntrySide(signal)
           closing == IF closed
                      THEN <<Order("close", cs, pos.size, TakePrice(cs, book), closeOk)>>
                      ELSE <<>>
           opening == IF RsiProceeds(closed, closeOk)
                      THEN <<Order("open", es, lot_size, TakePrice(es, book), openOk)>>
                      ELSE <<>>
       IN  closing \o opening

\* The venue position at the moment the opening order is placed ("NA" if no
\* opening order is placed).  An accepted closing limit order may have filled
\* by then or still rest unfilled: `filled` says which.  A rejected order
\* changes nothing.
VenueAtOpen(venue, orders, filled) ==
  IF \E i \in 1..Len(orders) : orders[i].role = "open"
  THEN LET o == orders[1]
       IN  IF o.role = "close" /\ o.success /\ filled
           THEN Side(Filled(venue, o.side, o.size)) ELSE Side(venue)
  ELSE "NA"

Accepted(orders, role) ==
  \E i \in 1..Len(orders) : orders[i].role = role /\ orders[i].success
Placed(orders, role) == \E i \in 1..Len(orders) : orders[i].role = role

\* the faulty alternative: the signal is cleared only once it traded
SignalKeptOnFailure(signal, orders) ==
  IF Accepted(orders, "open") THEN "NONE" ELSE signal

\* execute_trade, lines 624-625: the signal is taken and cleared before
\* anything can fail, so pending_signal is empty whatever the orders did
SignalAfterExecute(signal, orders) == "NONE"

\* run, lines 723-724 with a pending signal: execute_trade()
RsiExecuteTrade ==
  /\ variant = "rsi" /\ pc = "execute" /\ pending_signal # "NONE"
  /\ \E venue_position \in Venues, resp \in {"ok", "fail"}, book \in {Book, NoBook},
        closeOk \in BOOLEAN, openOk \in BOOLEAN, filled \in BOOLEAN :
       LET pos == get_current_position(resp, venue_position)
           orders == execute_trade(pending_signal, pos, book, closeOk, openOk)
       IN  /\ trade_count' = IF Accepted(orders, "open") THEN trade_count + 1
                                                          ELSE trade_count
           /\ last_exec' = [signal |-> pending_signal, position |-> pos.position,
                            confirmed |-> resp = "ok", book |-> book # NoBook,
                            close_result |->
                              IF ~Placed(orders, "close") THEN "NA"
                              ELSE IF closeOk THEN "ok" ELSE "failed",
                            orders |-> orders,
                            venue_at_open |-> VenueAtOpen(venue_position, orders, filled)]
           /\ pending_signal' = SignalAfterExecute(pending_signal, orders)
  /\ executed' = executed \cup {Boundary}
  /\ re_executed' = re_executed \cup ({Boundary} \cap executed)
  /\ pc' = "status"
  /\ UNCHANGED <<variant, fnVars, interrupt, now, current_price, last_candle_time, new_candle,
                 rsiVars, emaVars, trade_history, detect_held, detect_venue,
                 applied, re_applied>>

\* run, line 723 with no pending signal
RsiNoSignal ==
  /\ variant = "rsi" /\ pc = "execute" /\ pending_signal = "NONE"
  /\ pc' = "status"
  /\ UNCHANGED <<variant, fnVars, interrupt, now, current_price, last_candle_time,
                 new_candle, rsiVars, pending_signal, emaVars, trade_count,
                 trade_history, last_exec, obsVars>>

\* run, lines 727-733: print_status (every 20th loop) and get_live_price only
\* store the live price (a failed fetch stores nothing); then the loop sleeps
\* and the clock moves on
RsiStatus ==
  /\ variant = "rsi" /\ pc = "status"
  /\ \E p \in LivePrices : current_price' = p
  /\ now' = now + (RsiTf \div 2) /\ now' <= MaxNow
  /\ pc' = "check"
  /\ UNCHANGED <<variant, fnVars, interrupt, last_candle_time, new_candle, rsiVars,
                 pending_signal, emaVars, trade_count, trade_history, last_exec,
                 obsVars>>

RsiNext == RsiCheck \/ RsiUpdate \/ RsiExecuteTrade \/ RsiNoSignal \/ RsiStatus

\* ============================================================ EMA variant
max_prices == EmaPeriod + CloseBuffer

\* ema = (price - ema) * multiplier + ema, multiplier = 2 / (period + 1)
EmaReduce(e) ==
  LET k == GCD(e.n, e.d)
  IN  IF k <= 1 THEN e ELSE [n |-> e.n \div k, d |-> e.d \div k]
EmaStep(e, price) ==
  EmaReduce([n |-> e.n * (EmaPeriod - 1) + 2 * price * e.d, d |-> e.d * (EmaPeriod + 1)])

RECURSIVE EmaAdvance(_, _, _)
EmaAdvance(e, prices, i) ==
  IF i > Len(prices) THEN e ELSE EmaAdvance(EmaStep(e, prices[i]), prices, i + 1)

\* _calculate_ema(prices, period), for len(prices) >= period
calculate_ema(prices) ==
  EmaAdvance(EmaReduce([n |-> SumSeq(SubSeq(prices, 1, EmaPeriod)), d |-> EmaPeriod]),
             prices, EmaPeriod + 1)

EmaPositive(e) == e.n > 0
Above(price, e) == price * e.d > e.n

\* candle start times n candles back from and including `last`
TimesUpTo(last, n, tf) == {last - i * tf : i \in 0..(n - 1)}

\* which of its candles _load_historical_data folds into the seed
SeedCloses(closes) == closes

\* _load_historical_data with len(candles) >= ema_period.  The venue's range
\* query ends at the current time, so the newest candle it returns is the
\* last completed one or the one still forming.  last_candle_time stays None.
EmaLoaded(closes, last) ==
  /\ price_history = DequeOf(closes, max_prices)
  /\ current_ema = calculate_ema(SeedCloses(closes))
  /\ applied = TimesUpTo(last, Len(closes), EmaTf) /\ re_applied = {}

EmaConstructed ==
  /\ variant = "ema"
  /\ now = EmaStart
  /\ InitCommon
  /\ RsiFresh
  /\ last_candle_time = None
  /\ \/ \E n \in {EmaPeriod + 1}, last \in {EmaStart - EmaTf, EmaStart} :
          \E closes \in [1..n -> Closes] : EmaLoaded(closes, last)
     \/ EmaFresh

InitEma == EmaConstructed /\ NoCalls

\* -------------------------------------------------------------- EMA: feed
EmaCandidates(t) ==
  LET f == (t \div EmaTf) * EmaTf
  IN  {f - 2 * EmaTf, f - EmaTf, f, f + EmaTf}

\* get_latest_candle: the newest candle that started before the forming one,
\* else the second newest of the list; None on failure or fewer than 2 candles
get_latest_candle(ok, times, close, t) ==
  IF ~ok \/ Cardinality(times) < 2 THEN NoCandle
  ELSE LET current_candle_start == (t \div EmaTf) * EmaTf
           done == {x \in times : x < current_candle_start}
       IN  IF done # {} THEN [time |-> SetMax(done), close |-> close]
           ELSE [time |-> SetMax(times \ {SetMax(times)}), close |-> close]

\* the test of run, line 650, that lets a fetched candle through
IsNewCandle(c, last) == c # NoCandle /\ last # c.time

\* run, lines 648-667: fetch, mark as seen, update_ema_with_new_candle, and
\* derive the signal; pending_signal holds the local `signal` of run
EmaCandle ==
  /\ variant = "ema" /\ pc = "check"
  /\ \E ok \in BOOLEAN, times \in SUBSET EmaCandidates(now), close \in Closes :
       LET c == get_latest_candle(ok, times, close, now)
       IN  IF IsNewCandle(c, last_candle_time)
           THEN /\ last_candle_time' = c.time
                /\ IF EmaPositive(current_ema)
                   THEN LET new_ema == EmaStep(current_ema, c.close)
                        IN  /\ price_history' = DequeAppend(price_history, c.close, max_prices)
                            /\ current_ema' = new_ema
                            /\ applied' = applied \cup {c.time}
                            /\ re_applied' = re_applied \cup ({c.time} \cap applied)
                            /\ pending_signal' = IF Above(c.close, new_ema)
                                                 THEN "LONG" ELSE "SHORT"
                            /\ pc' = "execute"
                   ELSE /\ UNCHANGED <<emaVars, applied, re_applied, pending_signal>>
                        /\ pc' = "status"
           ELSE /\ UNCHANGED <<last_candle_time, emaVars, applied, re_applied, pending_signal>>
                /\ pc' = "status"
  /\ last_exec' = NoExec
  /\ UNCHANGED <<variant, fnVars, interrupt, now, current_price, new_candle, rsiVars,
                 trade_count, trade_history, detect_held, detect_venue,
                 executed, re_executed>>

\* --------------------------------------------------------- EMA: executing
\* close_position: the order it places (none without an order book)
close_position(pos, book, closeOk) ==
  IF pos.position = "FLAT" \/ book = NoBook THEN <<>>
  ELSE LET cs == CloseSide(pos.position)
       IN  <<Order("close", cs, pos.size, TakePrice(cs, book), closeOk)>>

\* the value close_position returns
close_position_ok(pos, book, closeOk) ==
  pos.position = "FLAT" \/ (book # NoBook /\ closeOk)

\* the faulty alternative: a rejected opening order is placed a second time
OpenWithRetry(direction, book, openOk) ==
  IF book = NoBook THEN <<>>
  ELSE LET es == EntrySide(direction)
           o == Order("open", es, lot_size, TakePrice(es, book), openOk)
       IN  IF openOk THEN <<o>> ELSE <<o, o>>

\* open_position: the order it places (none without an order book)
open_position(direction, book, openOk) ==
  IF book = NoBook THEN <<>>
  ELSE LET es == EntrySide(direction)
       IN  <<Order("open", es, lot_size, TakePrice(es, book), openOk)>>

\* whether execute_signal goes on to open_position after close_position
EmaProceeds(closedOk) == TRUE

\* execute_signal, lines 620-633: the place_limit_order calls it makes
execute_signal(signal, pos, closeBook, closeOk, openBook, openOk) ==
  IF signal = pos.position THEN <<>>
  ELSE LET closing == close_position(pos, closeBook, closeOk)
           opening == IF EmaProceeds(close_position_ok(pos, closeBook, closeOk))
                      THEN open_position(signal, openBook, openOk) ELSE <<>>
       IN  closing \o opening

\* record_trade for every accepted order, trade_count += 1 after each
RECURSIVE RecordTrades(_, _, _, _, _, _)
RecordTrades(history, count, orders, i, held, signal) ==
  IF i > Len(orders) THEN [history |-> history, count |-> count]
  ELSE LET o == orders[i]
           rec == [trade_id |-> count,
                   action |-> IF o.role = "close" THEN "CLOSE" ELSE "OPEN",
                   side |-> o.side, size |-> o.size, price |-> o.price,
                   position_type |-> IF o.role = "close" THEN held ELSE signal]
       IN  IF o.success
           THEN RecordTrades(DequeAppend(history, rec, TradeHistoryMax), count + 1,
                             orders, i + 1, held, signal)
           ELSE RecordTrades(history, count, orders, i + 1, held, signal)

\* run, line 669: execute_signal(signal)
EmaExecuteSignal ==
  /\ variant = "ema" /\ pc = "execute"
  /\ \E venue_position \in Venues, resp \in {"ok", "fail"},
        closeBook \in {Book, NoBook}, openBook \in {Book, NoBook},
        closeOk \in BOOLEAN, openOk \in BOOLEAN, filled \in BOOLEAN :
       LET pos == get_current_position(resp, venue_position)
           orders == execute_signal(pending_signal, pos, closeBook, closeOk,
                                    openBook, openOk)
           rec == RecordTrades(trade_history, trade_count, orders, 1,
                               pos.position, pending_signal)
       IN  /\ trade_history' = rec.history
           /\ trade_count' = rec.count
           /\ last_exec' = [signal |-> pending_signal, position |-> pos.position,
                            confirmed |-> resp = "ok",
                            book |-> openBook # NoBook,
                            close_result |->
                              IF pending_signal = pos.position \/ pos.position = "FLAT"
                              THEN "NA"
                              ELSE IF close_position_ok(pos, closeBook, closeOk)
                                   THEN "ok" ELSE "failed",
                            orders |-> orders,
                            venue_at_open |-> VenueAtOpen(venue_position, orders, filled)]
  /\ pending_signal' = "NONE"
  /\ executed' = executed \cup {Boundary}
  /\ re_executed' = re_executed \cup ({Boundary} \cap executed)
  /\ pc' = "status"
  /\ UNCHANGED <<variant, fnVars, interrupt, now, current_price, last_candle_time, new_candle,
                 rsiVars, emaVars, detect_held, detect_venue, applied, re_applied>>

\* update_live_ema: the estimate it returns; current_ema is only read
update_live_ema(e, price) == IF EmaPositive(e) /\ price > 0 THEN EmaStep(e, price) ELSE e

\* the faulty alternative: the live estimate is stored as the EMA
LiveEmaWrittenBack(e, live_price) == update_live_ema(e, live_price)

\* display_live_status, lines 550-555: the live estimate is a local that is
\* only printed; current_ema keeps its value
EmaAfterDisplay(e, live_price) ==
  LET live_ema_estimate == update_live_ema(e, live_price)
  IN  e

\* run, lines 672-676: display_live_status (every 3rd loop) stores the live
\* price it fetched; then the loop sleeps and the clock moves on
EmaStatus ==
  /\ variant = "ema" /\ pc = "status"
  /\ \E p \in LivePrices : /\ current_price' = p
                            /\ current_ema' = EmaAfterDisplay(current_ema, p)
  /\ now' = now + (EmaTf \div 2) /\ now' <= MaxNow
  /\ pc' = "check"
  /\ UNCHANGED <<variant, fnVars, interrupt, last_candle_time, new_candle, rsiVars,
                 pending_signal, price_history, trade_count, trade_history, last_exec,
                 obsVars>>

EmaNext == EmaCandle \/ EmaExecuteSignal \/ EmaStatus

\* --------------------------------------------------------- specification
Init == InitRsi \/ InitEma
Next == RsiNext \/ EmaNext
Spec == Init /\ [][Next]_vars
SpecRsi == InitRsi /\ [][RsiNext]_vars
SpecEma == InitEma /\ [][EmaNext]_vars

\* ------------------------------------------------------- KeyboardInterrupt
\* A KeyboardInterrupt is raised at the point the main thread has reached.
\* Inside a try with a bare `except:` it is caught there and the call returns
\* its failure value ("swallowed"); anywhere else it unwinds to the handler
\* of run, which logs the shutdown and leaves the loop: from the sleep that
\* ends a tick ("exited"), or from the middle of a tick ("cut").

\* rsi: inside check_for_new_candle, whose body is wrapped by `except:`
RsiInterruptSwallowed ==
  /\ variant = "rsi" /\ pc = "check" /\ interrupt = "none"
  /\ new_candle' = NoCandle
  /\ pc' = "execute"
  /\ last_exec' = NoExec
  /\ detect_held' = "NA" /\ detect_venue' = "NA"
  /\ interrupt' = "swallowed"
  /\ UNCHANGED <<variant, fnVars, now, current_price, last_candle_time,
                 rsiVars, pending_signal, emaVars, trade_count, trade_history,
                 executed, re_executed, applied, re_applied>>

\* rsi: inside time.sleep(2) of execute_trade, after an accepted close
RsiInterruptBetweenOrders ==
  /\ variant = "rsi" /\ pc = "execute" /\ pending_signal # "NONE"
  /\ interrupt = "none"
  /\ \E venue_position \in Venues \ {0} :
       LET pos == get_current_position("ok", venue_position)
           orders == SubSeq(execute_trade(pending_signal, pos, Book, TRUE, TRUE), 1, 1)
       IN  last_exec' = [signal |-> pending_signal, position |-> pos.position,
                         confirmed |-> TRUE, book |-> TRUE, close_result |-> "ok",
                         orders |-> orders, venue_at_open |-> "NA"]
  /\ pending_signal' = "NONE"
  /\ executed' = executed \cup {Boundary}
  /\ re_executed' = re_executed \cup ({Boundary} \cap executed)
  /\ pc' = "stopped"
  /\ interrupt' = "cut"
  /\ UNCHANGED <<variant, fnVars, now, current_price, last_candle_time, new_candle,
                 rsiVars, emaVars, trade_count, trade_history, detect_held,
                 detect_venue, applied, re_applied>>

\* rsi: inside time.sleep(5), the last statement of the loop body
RsiInterruptInSleep ==
  /\ variant = "rsi" /\ pc = "status" /\ interrupt = "none"
  /\ \E p \in LivePrices : current_price' = p
  /\ pc' = "stopped"
  /\ interrupt' = "exited"
  /\ UNCHANGED <<variant, fnVars, now, last_candle_time, new_candle, rsiVars,
                 pending_signal, emaVars, trade_count, trade_history, last_exec,
                 obsVars>>

\* ema: inside get_orderbook (bare `except:`) called by open_position, the
\* fetched position being FLAT
EmaInterruptSwallowed ==
  /\ variant = "ema" /\ pc = "execute" /\ interrupt = "none"
  /\ \E resp \in {"ok", "fail"} :
       LET pos == get_current_position(resp, 0)
           orders == execute_signal(pending_signal, pos, NoBook, FALSE, NoBook, FALSE)
       IN  last_exec' = [signal |-> pending_signal, position |-> pos.position,
                         confirmed |-> resp = "ok", book |-> FALSE,
                         close_result |-> "NA", orders |-> orders,
                         venue_at_open |-> "NA"]
  /\ pending_signal' = "NONE"
  /\ executed' = executed \cup {Boundary}
  /\ re_executed' = re_executed \cup ({Boundary} \cap executed)
  /\ pc' = "status"
  /\ interrupt' = "swallowed"
  /\ UNCHANGED <<variant, fnVars, now, current_price, last_candle_time, new_candle,
                 rsiVars, emaVars, trade_count, trade_history, detect_held,
                 detect_venue, applied, re_applied>>

\* ema: inside time.sleep(3) of execute_signal, after close_position returned
\* True for an open position
EmaInterruptBetweenOrders ==
  /\ variant = "ema" /\ pc = "execute" /\ interrupt = "none"
  /\ \E venue_position \in Venues \ {0} :
       LET pos == get_current_position("ok", venue_position)
           orders == close_position(pos, Book, TRUE)
           rec == RecordTrades(trade_history, trade_count, orders, 1,
                               pos.position, pending_signal)
       IN  /\ pending_signal # pos.position
           /\ trade_history' = rec.history
           /\ trade_count' = rec.count
           /\ last_exec' = [signal |-> pending_signal, position |-> pos.position,
                            confirmed |-> TRUE, book |-> TRUE, close_result |-> "ok",
                            orders |-> orders, venue_at_open |-> "NA"]
  /\ pending_signal' = "NONE"
  /\ executed' = executed \cup {Boundary}
  /\ re_executed' = re_executed \cup ({Boundary} \cap executed)
  /\ pc' = "stopped"
  /\ interrupt' = "cut"
  /\ UNCHANGED <<variant, fnVars, now, current_price, last_candle_time, new_candle,
                 rsiVars, emaVars, detect_held, detect_venue, applied, re_applied>>

\* ema: inside time.sleep(10), the last statement of the loop body
EmaInterruptInSleep ==
  /\ variant = "ema" /\ pc = "status" /\ interrupt = "none"
  /\ UNCHANGED current_price
  /\ pc' = "stopped"
  /\ interrupt' = "exited"
  /\ UNCHANGED <<variant, fnVars, now, last_candle_time, new_candle, rsiVars,
                 pending_signal, emaVars, trade_count, trade_history, last_exec,
                 obsVars>>

Cancel ==
  \/ RsiInterruptSwallowed \/ RsiInterruptBetweenOrders \/ RsiInterruptInSleep
  \/ EmaInterruptSwallowed \/ EmaInterruptBetweenOrders \/ EmaInterruptInSleep

\* either bot with a KeyboardInterrupt delivered at most once
SpecCancel == Init /\ [][Next \/ Cancel]_vars

\* ------------------------------------------------------------ notification
\* __init__: whether the constructor assigns self.telegram (tradeexecute.py
\* builds a TelegramNotifier; rsi_sma_bot.py imports the class and never
\* instantiates it)
TelegramAssigned(v) == v = "ema"

\* _log: whether it hands the message to self.telegram.send_message
\* (rsi_sma_bot.py does; tradeexecute.py prints and appends to the log file)
LogCallsTelegram(v) == v = "rsi"

\* _log(message): what becomes of the message as far as the notifier goes
log(v) ==
  IF ~LogCallsTelegram(v) THEN "printed"
  ELSE IF TelegramAssigned(v) THEN "sent" ELSE "AttributeError"

\* ---------------------------------------------------------------- start-up
\* Config.validate: whether it raises ValueError for the credentials found in
\* the environment (DELTA_API_KEY, DELTA_API_SECRET)
ValidateRaises(credentials) == credentials = "missing"

\* whether the module-level `Config.validate()` of the bot's config module sits
\* in a try that catches ValueError: config_rsi_sma.py does (it prints a
\* warning), bot/config.py does not
ImportCatches(v) == v = "rsi"

\* The process once start-up is over.  `from config import Config` runs
\* Config.validate(): a ValueError that is not caught ends the process before
\* the bot class is even defined; otherwise the __main__ block constructs the
\* bot and calls run.
InitStart ==
  /\ result = NoCall
  /\ \E c \in {"set", "missing"}, v \in {"rsi", "ema"} :
       /\ arg = [credentials |-> c]
       /\ IF ValidateRaises(c) /\ ~ImportCatches(v)
          THEN /\ variant = v
               /\ pc = "not_started"
               /\ now = (IF v = "rsi" THEN RsiStart ELSE EmaStart)
               /\ FreshCommon /\ RsiFresh /\ EmaFresh
               /\ last_candle_time = None
          ELSE \/ v = "rsi" /\ RsiConstructed
               \/ v = "ema" /\ EmaConstructed

\* a signed request without credentials: _generate_signature raises on the
\* missing secret inside the caller's try, so the position fetch answers FLAT
\* unconfirmed and no order is accepted
UnsignedAnswers ==
  /\ pc = "update" => detect_held' \in {"NA", "FLAT"}
  /\ (pc = "execute" /\ pending_signal # "NONE") =>
       /\ ~last_exec'.confirmed
       /\ \A i \in 1..Len(last_exec'.orders) : ~last_exec'.orders[i].success

\* the loop of a started bot, with credentials and without them
LoopWithCredentials == arg.credentials = "set" /\ Next
LoopWithoutCredentials == arg.credentials = "missing" /\ RsiNext /\ UnsignedAnswers

SpecStart == InitStart /\ [][LoopWithCredentials \/ LoopWithoutCredentials]_vars

\* ------------------------------------ _get_last_completed_candle_time alone
\* timeframes the configuration can set, in minutes
Timeframes == {1, 5, 15, 60, 120, 240}
\* wall-clock readings: 00:22:00 of the second epoch day, then every half hour
ClockTimes == {86400 + (22 + 30 * k) * 60 : k \in 0..MaxClockSteps}

InitBoundary ==
  /\ variant = "boundary"
  /\ InitCommon /\ RsiFresh /\ EmaFresh
  /\ last_candle_time = None
  /\ now \in ClockTimes
  /\ \E tfm \in Timeframes : arg = [timeframe_minutes |-> tfm]
  /\ result = NoCall

\* one call of _get_last_completed_candle_time at wall-clock time `now`
BoundaryCall ==
  /\ variant = "boundary" /\ pc = "check"
  /\ result' = get_last_completed_candle_time(now, arg.timeframe_minutes)
  /\ pc' = "done"
  /\ UNCHANGED <<variant, arg, interrupt, now, current_price, last_candle_time, new_candle,
                 rsiVars, pending_signal, emaVars, trade_count, trade_history,
                 last_exec, obsVars>>

SpecBoundary == InitBoundary /\ [][BoundaryCall]_vars

\* --------------------------------------------- calculate_rsi_wilder alone
\* closes with room for rsi_period rises or falls in a row
WilderCloses == 10..(10 + RsiPeriod)
\* close histories of rsi_period + 1 closes and up to WilderExtra more
WilderHistories ==
  UNION {[1..n -> WilderCloses] : n \in (RsiPeriod + 1)..(RsiPeriod + 1 + WilderExtra)}

\* a fresh engine and a close history; the first `split` closes go to the
\* call that seeds, every later close to a call of its own
InitWilder ==
  /\ variant = "wilder"
  /\ InitCommon /\ RsiFresh /\ EmaFresh
  /\ last_candle_time = None
  /\ now = 0
  /\ \E closes \in WilderHistories, split \in (RsiPeriod + 1)..(RsiPeriod + 1 + WilderExtra) :
       /\ split <= Len(closes)
       /\ arg = [closes |-> closes, split |-> split]
  /\ result = NoCall

\* calculate_rsi_wilder(closes[:split]) on the fresh engine: the seeding call.
\* result keeps what one seeding call over the whole history gives a second
\* fresh engine.
WilderSeed ==
  /\ variant = "wilder" /\ pc = "check"
  /\ LET closes == SubSeq(arg.closes, 1, arg.split)
         r == calculate_rsi_wilder(closes, avg, rsi_initialized)
     IN  /\ candle_closes' = closes
         /\ current_rsi' = r.rsi
         /\ avg' = r.avg
         /\ rsi_initialized' = r.init
  /\ result' = calculate_rsi_wilder(arg.closes, NoAvg, FALSE)
  /\ pc' = IF arg.split < Len(arg.closes) THEN "update" ELSE "done"
  /\ UNCHANGED <<variant, arg, interrupt, now, current_price, last_candle_time,
                 new_candle, rsi_history, prev_rsi, current_sma, prev_sma,
                 pending_signal, emaVars, trade_count, trade_history, last_exec,
                 obsVars>>

\* calculate_rsi_wilder on the seeded engine after one more close was appended
WilderUpdate ==
  /\ variant = "wilder" /\ pc = "update"
  /\ LET closes == Append(candle_closes, arg.closes[Len(candle_closes) + 1])
         r == calculate_rsi_wilder(closes, avg, rsi_initialized)
     IN  /\ candle_closes' = closes
         /\ current_rsi' = r.rsi
         /\ avg' = r.avg
         /\ rsi_initialized' = r.init
         /\ pc' = IF Len(closes) < Len(arg.closes) THEN "update" ELSE "done"
  /\ UNCHANGED <<variant, fnVars, interrupt, now, current_price, last_candle_time,
                 new_candle, rsi_history, prev_rsi, current_sma, prev_sma,
                 pending_signal, emaVars, trade_count, trade_history, last_exec,
                 obsVars>>

SpecWilder == InitWilder /\ [][WilderSeed \/ WilderUpdate]_vars

TypeOK ==
  /\ variant \in {"rsi", "ema", "boundary", "wilder"}
  /\ pc \in {"check", "update", "execute", "status", "crashed", "done", "stopped",
            "not_started"}
  /\ interrupt \in {"none", "swallowed", "cut", "exited"}
  /\ pending_signal \in {"NONE", "LONG", "SHORT"}

\* ================================================================ claims
Opposite(signal) == IF signal = "LONG" THEN "SHORT" ELSE "LONG"

\* an Execute has just returned in this tick
Executed == pc = "status" /\ last_exec # NoExec
\* the step in which an Execute runs
ExecuteStep == pc = "execute" /\ pc' = "status" /\ last_exec' # NoExec

\* C1: RSI-SMA variant: when the closing place_limit_order call of an
\* execute_trade fails, that execution makes exactly one order call (the
\* close, never the open) and leaves trade_count unchanged.
C1_CloseFailureAborts ==
  [][(variant = "rsi" /\ ExecuteStep /\ last_exec'.close_result = "failed")
       => /\ Len(last_exec'.orders) = 1
          /\ last_exec'.orders[1].role = "close"
          /\ trade_count' = trade_count]_vars

C1_Witness ==
  /\ variant = "rsi" /\ Executed
  /\ last_exec.close_result = "failed"
  /\ last_exec.book /\ last_exec.confirmed

\* C2: EMA variant: when close_position returns False in an execute_signal,
\* open_position is not invoked and no opening order reaches the venue.
C2_NoOpenAfterFailedClose ==
  (variant = "ema" /\ Executed /\ last_exec.close_result = "failed")
    => ~Placed(last_exec.orders, "open")

\* C3: in both variants, when the venue position fetch of an Execute fails,
\* the position is not treated as FLAT and no order is placed for the signal.
C3_FailedFetchPlacesNothing ==
  (Executed /\ ~last_exec.confirmed)
    => (last_exec.position # "FLAT" /\ last_exec.orders = <<>>)

\* C4: an opening order is placed only when no opposing position is open at
\* the venue: after an accepted closing order the opening order goes out
\* only once the position is verified to be no longer opposite to the signal.
C4_NoOpenOverOpposingPosition ==
  (Executed /\ last_exec.confirmed /\ Placed(last_exec.orders, "open"))
    => last_exec.venue_at_open # Opposite(last_exec.signal)

\* C5: a closing order is placed only if the fetched position is neither
\* FLAT nor the signal direction; when the fetched position already equals
\* the signal direction, Execute places no order at all.
C5_CloseOnlyOpposingPosition ==
  Executed =>
    /\ Placed(last_exec.orders, "close")
         => last_exec.position \notin {"FLAT", last_exec.signal}
    /\ last_exec.position = last_exec.signal => last_exec.orders = <<>>

\* C6: missing order-book data aborts: execute_trade without an order book
\* makes no place_limit_order call whatever the position and leaves
\* trade_count unchanged; open_position without an order book places no
\* opening order.
C6_NoOrderBookNoOrder ==
  [][(ExecuteStep /\ ~last_exec'.book)
       => /\ variant = "rsi" => (last_exec'.orders = <<>> /\ trade_count' = trade_count)
          /\ variant = "ema" => ~Placed(last_exec'.orders, "open")]_vars

C6_Witness ==
  /\ variant = "rsi" /\ Executed
  /\ ~last_exec.book /\ last_exec.position # "FLAT"

\* C7: pending_signal is empty after execute_trade returns on every path, an
\* Execute runs only for a pending signal, and a signal becomes pending only
\* in the indicator update of a newly completed candle: a failed signal is
\* not executed again on later ticks.
C7_SignalClearedNotRetried ==
  [][/\ pc' = "status" => pending_signal' = "NONE"
     /\ ExecuteStep => pending_signal # "NONE"
     /\ (pending_signal' # "NONE" /\ pending_signal' # pending_signal)
          => (pc = "update" /\ new_candle # NoCandle
              /\ last_candle_time' = new_candle.time
              /\ last_candle_time' # last_candle_time)]_vars

\* a later tick of the candle whose signal failed: nothing is pending
C7_Witness ==
  /\ variant = "rsi" /\ pc = "execute"
  /\ Boundary \in executed /\ trade_count = 0
  /\ pending_signal = "NONE" /\ detect_held = "NA"

\* C8: each completed-candle boundary triggers at most one Execute, whatever
\* the candle source answers.
C8_OneExecutePerCandle == re_executed = {}

\* C9: EMA variant: each completed candle's close is folded into current_ema
\* exactly once, and the close of a still-forming candle never is.
C9_EachCandleFoldedOnce ==
  variant = "ema" =>
    /\ re_applied = {}
    /\ \A t \in applied : t < (now \div EmaTf) * EmaTf

BullishEdge == prev_rsi <= prev_sma /\ current_rsi > current_sma
BearishEdge == prev_rsi >= prev_sma /\ current_rsi < current_sma

\* C10: after an indicator update with prior readings, pending_signal is
\* LONG exactly on a bullish edge with the held position not LONG, SHORT
\* exactly on a bearish edge with the held position not SHORT, also for a
\* previous RSI or SMA of exactly 0.
C10_CrossoverSetsSignal ==
  (variant = "rsi" /\ pc = "execute" /\ detect_held # "NA") =>
    /\ pending_signal = "LONG" <=> (BullishEdge /\ detect_held # "LONG")
    /\ pending_signal = "SHORT" <=> (BearishEdge /\ detect_held # "SHORT")

\* the same with the zero sentinel excluded: what the code does
C10_ExceptZeroSentinel ==
  (variant = "rsi" /\ pc = "execute" /\ detect_held # "NA"
     /\ prev_rsi # 0 /\ prev_sma # 0) =>
    /\ pending_signal = "LONG" <=> (BullishEdge /\ detect_held # "LONG")
    /\ pending_signal = "SHORT" <=> (BearishEdge /\ detect_held # "SHORT")

\* C11: hysteresis: after an indicator update in which the venue holds LONG
\* and a bullish edge occurs, no signal is pending (so no order follows in
\* that tick); the same for SHORT and a bearish edge.
C11_HeldPositionNoSignal ==
  (variant = "rsi" /\ pc = "execute" /\ detect_venue # "NA") =>
    /\ (detect_venue = "LONG" /\ BullishEdge) => pending_signal = "NONE"
    /\ (detect_venue = "SHORT" /\ BearishEdge) => pending_signal = "NONE"

\* the same for the position get_current_position reported: what the code does
C11_ReportedPositionNoSignal ==
  (variant = "rsi" /\ pc = "execute" /\ detect_held # "NA") =>
    /\ (detect_held = "LONG" /\ BullishEdge) => pending_signal = "NONE"
    /\ (detect_held = "SHORT" /\ BearishEdge) => pending_signal = "NONE"

Below(price, e) == price * e.d < e.n
\* the step of run in which a completed candle yields a signal
EmaSignalStep == variant = "ema" /\ pc = "check" /\ pc' = "execute"
PrevClose == price_history[Len(price_history)]
CurClose == price_history'[Len(price_history')]
EmaBullishEdge == ~Above(PrevClose, current_ema) /\ Above(CurClose, current_ema')
EmaBearishEdge == ~Below(PrevClose, current_ema) /\ Below(CurClose, current_ema')

\* C12: EMA variant: a completed candle produces a signal only on a crossover
\* edge between the (previous close, previous EMA) pair and the (current
\* close, current EMA) pair: LONG only on a bullish edge, SHORT only on a
\* bearish edge; a close on the same side as before, or equal to the EMA,
\* produces none.
C12_SignalOnlyOnCrossover ==
  [][(EmaSignalStep /\ price_history # <<>>)
       => /\ pending_signal' = "LONG" => EmaBullishEdge
          /\ pending_signal' = "SHORT" => EmaBearishEdge]_vars

BoundaryReturned == variant = "boundary" /\ pc = "done"
FloorMinusTimeframe(t, tf) == (t \div tf) * tf - tf

\* C13: for every clock reading and every timeframe, 60 and multi-hour ones
\* included, _get_last_completed_candle_time returns floor(now, timeframe)
\* - timeframe: a multiple of the timeframe with
\* result + timeframe <= now < result + 2 * timeframe.
C13_BoundaryIsFloorMinusTimeframe ==
  BoundaryReturned =>
    LET tf == arg.timeframe_minutes * 60
    IN  /\ result = FloorMinusTimeframe(now, tf)
        /\ result % tf = 0
        /\ result + tf <= now /\ now < result + 2 * tf

\* the same for the timeframes of at most an hour that divide it: what the
\* minute arithmetic of the code gets right
C13_WithinTheHour ==
  (BoundaryReturned /\ 60 % arg.timeframe_minutes = 0) =>
    result = FloorMinusTimeframe(now, arg.timeframe_minutes * 60)

\* a tick of the RSI-SMA loop in which check_for_new_candle returned nothing
NoCandleTick == pc = "execute" /\ detect_held = "NA"

\* C14: check_for_new_candle returns nothing when the last-completed boundary
\* equals last_candle_time; a candle it returns starts at the changed
\* boundary and is timeframe-aligned; and a tick in which it returns nothing
\* leaves last_candle_time, the indicator state and pending_signal unchanged.
C14_OnlyTheBoundaryCandle ==
  [][variant = "rsi" =>
       LET boundary == get_last_completed_candle_time(now, timeframe_minutes)
       IN  /\ pc = "check" =>
                /\ boundary = last_candle_time => new_candle' = NoCandle
                /\ new_candle' # NoCandle =>
                     /\ new_candle'.time = boundary
                     /\ boundary # last_candle_time
                     /\ RsiAligned(new_candle'.time)
           /\ pc # "update" => UNCHANGED <<last_candle_time, rsiVars>>
           /\ (pc \in {"check", "status"} \/ NoCandleTick)
                => pending_signal' = pending_signal]_vars

\* the boundary moved on, yet the tick got no candle for it
C14_Witness ==
  /\ variant = "rsi" /\ NoCandleTick /\ rsi_initialized
  /\ get_last_completed_candle_time(now, timeframe_minutes) # last_candle_time

C16_CancellationCompletesTick ==
  interrupt # "none" => (pc = "stopped" /\ interrupt = "exited")

\* the two ways the code departs from it, each on its own
C16_NeverSwallowed == interrupt # "swallowed"
C16_NeverCutShort == interrupt # "cut"

\* C17: after start-up nothing terminates the process: whatever the candle
\* source, the venue and the orders answer, and also when the historical
\* load left the RSI undefined, the indicator update never raises and the
\* poll loop keeps running.
C17_LoopNeverDies == pc # "crashed"

\* the same for a bot whose historical load succeeded: what the code achieves
C17_LoadedBotNeverDies == rsi_initialized => pc # "crashed"

\* C18: missing credentials are fatal in both variants: with DELTA_API_KEY
\* or DELTA_API_SECRET unset the process never starts: the bot is never
\* constructed and the poll loop is never entered.
C18_MissingCredentialsFatal ==
  arg.credentials = "missing" => pc = "not_started"

\* the same for the EMA variant alone: what the code achieves
C18_EmaNeverStarts ==
  (variant = "ema" /\ arg.credentials = "missing") => pc = "not_started"

\* a step of the loop in which a pending signal is executed
SignalExecuted == pc = "execute" /\ pending_signal # "NONE" /\ pc' # "execute"

\* the record actions the accepted orders of one execution call for, in order
RECURSIVE AcceptedActions(_)
AcceptedActions(orders) ==
  IF orders = <<>> THEN <<>>
  ELSE LET o == Head(orders)
       IN  (IF o.success
            THEN <<IF o.role = "close" THEN "CLOSE" ELSE "OPEN">> ELSE <<>>)
           \o AcceptedActions(Tail(orders))

\* `after` is `before` with one record per entry of `actions` appended, the
\* oldest records evicted beyond TradeHistoryMax
AppendedFor(before, after, actions) ==
  LET n == Len(actions)
      evicted == Len(before) + n - Len(after)
  IN  /\ Len(after) = (IF Len(before) + n > TradeHistoryMax
                       THEN TradeHistoryMax ELSE Len(before) + n)
      /\ \A i \in 1..n : after[Len(after) - n + i].action = actions[i]
      /\ \A i \in 1..(Len(after) - n) : after[i] = before[i + evicted]

\* C19: every execution appends to trade_history one CLOSE record per
\* accepted closing order and one OPEN record per accepted opening order, in
\* both variants; a failed order adds no record, no other step touches
\* trade_history, and at most TradeHistoryMax records are kept.
C19_RecordPerAcceptedOrder ==
  [][IF SignalExecuted
     THEN AppendedFor(trade_history, trade_history',
                      AcceptedActions(last_exec'.orders))
     ELSE trade_history' = trade_history]_vars

\* the same for the EMA variant alone: what the code achieves
C19_EmaRecordPerAcceptedOrder ==
  [][variant = "ema" =>
       IF SignalExecuted
       THEN AppendedFor(trade_history, trade_history',
                        AcceptedActions(last_exec'.orders))
       ELSE trade_history' = trade_history]_vars

\* an EMA execution with both orders accepted has left its two records
C19_EmaTwoRecords ==
  /\ variant = "ema" /\ Len(last_exec.orders) = 2
  /\ \A i \in 1..2 : last_exec.orders[i].success
  /\ Len(trade_history) = 2

\* a step in which a candle completes or a signal is executed: both bots
\* call _log for it
LoggedEvent == last_candle_time' # last_candle_time \/ SignalExecuted

\* C20: every completed candle and every trade execution results in a
\* send_message call on a constructed notifier, in both variants.
C20_EveryEventNotified ==
  [][LoggedEvent => log(variant) = "sent"]_vars

\* C21: once the averages are seeded, avg_gain and avg_loss are never
\* negative, and every RSI value calculate_rsi_wilder returned (the current
\* one and those kept in rsi_history) lies in [0, 100].
C21_RsiInRange ==
  rsi_initialized =>
    /\ avg.d > 0 /\ avg.g >= 0 /\ avg.l >= 0
    /\ current_rsi # None => current_rsi \in 0..10000
    /\ \A i \in 1..Len(rsi_history) : rsi_history[i] \in 0..10000

\* a per-candle update has just run on seeded averages, with gains and losses
\* both present
C21_Witness ==
  /\ variant = "rsi" /\ rsi_initialized /\ detect_held # "NA"
  /\ avg.g > 0 /\ avg.l > 0
  /\ current_rsi \in 1..9999

\* a call of calculate_rsi_wilder has returned on the engine
WilderReturned == variant = "wilder" /\ pc \in {"update", "done"}
\* every close handed to the engine so far is the same
FlatSoFar == \A i \in 1..Len(candle_closes) : candle_closes[i] = candle_closes[1]

\* C22: whenever avg_loss is 0 after the seeding call or after an update,
\* the RSI returned is exactly 100; in particular closes that never moved
\* give 100, and so does a seed window of rises only.
C22_ZeroLossIsHundred ==
  WilderReturned =>
    /\ avg.l = 0 => current_rsi = 10000
    /\ FlatSoFar => (avg.l = 0 /\ current_rsi = 10000)

\* a flat history after its seeding call and one update
C22_FlatWitness ==
  /\ WilderReturned /\ FlatSoFar /\ avg.g = 0
  /\ Len(candle_closes) > arg.split

\* C23: while rsi_history holds fewer than sma_period values, the SMA is a
\* distinguishable "no value": calculate_sma yields None and neither
\* current_sma nor prev_sma holds a number (0 included).
C23_SmaUndefinedUntilFull ==
  (variant = "rsi" /\ Len(rsi_history) < SmaPeriod)
    => /\ calculate_sma(rsi_history) = None
       /\ current_sma = None /\ prev_sma = None

\* the same for calculate_sma alone: what the code achieves
C23_CalculateSmaUndefined ==
  (variant = "rsi" /\ Len(rsi_history) < SmaPeriod)
    => calculate_sma(rsi_history) = None

\* the indicator engine has left Uninitialized
Seeded == IF variant = "ema" THEN EmaPositive(current_ema) ELSE rsi_initialized
\* the closes gathered toward the warm-up window
WarmUp == IF variant = "ema" THEN Len(price_history) ELSE Len(candle_closes)
\* a step in which the loop takes in a completed candle and stays alive
CandleArrives == last_candle_time' # last_candle_time /\ pc' # "crashed"

\* C24: an engine the historical load left unseeded warms up in the loop:
\* every completed candle that arrives while the process is alive is added
\* to the warm-up window until the engine is seeded, so that it is seeded
\* once enough candles have arrived; a seeded engine never returns to
\* Uninitialized.
C24_WarmsUpThenStaysSeeded ==
  [][/\ Seeded => Seeded'
     /\ (~Seeded /\ CandleArrives) => (Seeded' \/ WarmUp' = WarmUp + 1)]_vars

\* a seeded engine stays seeded: what the code achieves
C24_StaysSeeded == [][Seeded => Seeded']_vars

\* the EMA engine left unseeded by the load stays so whatever arrives
C24_EmaNeverWarmsUp ==
  [][(variant = "ema" /\ ~Seeded) => (~Seeded' /\ price_history' = <<>>)]_vars

\* the size the venue reports for a position of this side
HeldSize(position) == Abs(CHOOSE v \in Venues : Side(v) = position)

\* C25: in both variants a closing order has the size of the fetched
\* position and sells at best_bid to close LONG, buys at best_ask to close
\* SHORT; an opening order has size lot_size and buys at best_ask for a
\* LONG signal, sells at best_bid for a SHORT signal.
C25_OrderParameters ==
  \A i \in 1..Len(last_exec.orders) :
    LET o == last_exec.orders[i]
    IN  /\ o.role = "close" =>
             /\ o.size = HeldSize(last_exec.position)
             /\ last_exec.position = "LONG" =>
                  (o.side = "sell" /\ o.price = Book.best_bid)
             /\ last_exec.position = "SHORT" =>
                  (o.side = "buy" /\ o.price = Book.best_ask)
        /\ o.role = "open" =>
             /\ o.size = lot_size
             /\ last_exec.signal = "LONG" =>
                  (o.side = "buy" /\ o.price = Book.best_ask)
             /\ last_exec.signal = "SHORT" =>
                  (o.side = "sell" /\ o.price = Book.best_bid)

\* an Execute that closed a SHORT position of two lots and opened LONG
C25_Witness ==
  /\ Len(last_exec.orders) = 2
  /\ last_exec.position = "SHORT" /\ last_exec.signal = "LONG"
  /\ last_exec.orders[1].size = 2 /\ last_exec.orders[2].size = lot_size

\* C26: seeding on the first `split` closes and then one steady-state update
\* per later close leaves the same avg_gain, avg_loss and RSI as one seeding
\* call over the whole history.
C26_SeedEqualsIncremental ==
  (variant = "wilder" /\ pc = "done")
    => (avg = result.avg /\ current_rsi = result.rsi /\ rsi_initialized = result.init)

\* a history split so that at least two steady-state updates followed the
\* seeding call, with gains and losses both present
C26_Witness ==
  /\ variant = "wilder" /\ pc = "done"
  /\ Len(arg.closes) >= arg.split + 2
  /\ avg.g > 0 /\ avg.l > 0

\* the boundary check_for_new_candle looks for at this clock reading
RsiBoundary == get_last_completed_candle_time(now, timeframe_minutes)

\* C27: RSI-SMA variant: a failed candle fetch changes nothing and is retried:
\* a failed request never yields a candle; a tick that yields none leaves
\* last_candle_time and the indicator state alone; as long as the boundary
\* is not the one last applied, a tick asks for it again and takes it when
\* the request succeeds; and a candle that is applied is the boundary's,
\* newer than the last one applied, so that no boundary is applied twice.
C27_FailedFetchRetried ==
  [][/\ (variant = "rsi" /\ pc = "update") =>
          /\ last_candle_time' = new_candle.time
          /\ last_candle_time' > last_candle_time
     /\ (variant = "rsi" /\ pc = "check") =>
       /\ \A times \in SUBSET RsiCandidates(now), close \in Closes :
            check_for_new_candle(FALSE, times, close, now, last_candle_time) = NoCandle
       /\ new_candle' = NoCandle =>
            (pc' # "update" /\ UNCHANGED <<last_candle_time, rsiVars, pending_signal>>)
       /\ RsiBoundary # last_candle_time =>
            \A close \in Closes :
              check_for_new_candle(TRUE, {RsiBoundary}, close, now, last_candle_time)
                = [time |-> RsiBoundary, close |-> close]
       /\ new_candle' # NoCandle =>
            /\ new_candle'.time = RsiBoundary /\ new_candle'.time > last_candle_time
            /\ pc' = "update"]_vars

\* a boundary is taken on the second tick that asked for it: the tick before
\* asked for the same boundary and got nothing
C27_Witness ==
  /\ variant = "rsi" /\ pc = "update"
  /\ now > RsiStart /\ now % RsiTf = RsiTf \div 2
  /\ new_candle.time = RsiBoundary

\* `after` is `before` left alone, or with one entry appended and, if it was
\* full at m entries, its oldest entry dropped
AppendedOrSame(before, after, m) ==
  \/ after = before
  \/ /\ Len(after) = (IF Len(before) = m THEN m ELSE Len(before) + 1)
     /\ SubSeq(after, 1, Len(after) - 1)
          = (IF Len(before) = m THEN Tail(before) ELSE before)

HistoriesBounded ==
  /\ Len(candle_closes) <= max_closes
  /\ Len(rsi_history) <= SmaPeriod
  /\ Len(price_history) <= max_prices

\* C28: the histories stay bounded whatever candles arrive: candle_closes at
\* rsi_period plus the buffer, rsi_history at sma_period, price_history at
\* ema_period plus the buffer; an update appends one entry and evicts the
\* oldest one when the history is full.
C28_HistoriesBounded ==
  [][/\ HistoriesBounded /\ HistoriesBounded'
     /\ AppendedOrSame(candle_closes, candle_closes', max_closes)
     /\ AppendedOrSame(rsi_history, rsi_history', SmaPeriod)
     /\ AppendedOrSame(price_history, price_history', max_prices)]_vars

\* a candle update of the RSI-SMA bot on full histories
C28_Witness ==
  /\ variant = "rsi" /\ detect_held # "NA"
  /\ Len(candle_closes) = max_closes /\ Len(rsi_history) = SmaPeriod
  /\ last_candle_time > get_last_completed_candle_time(RsiStart, timeframe_minutes)

\* the positions of the orders of one Execute that have this role
RoleAt(orders, role) == {i \in 1..Len(orders) : orders[i].role = role}

\* C29: one Execute of a signal places at most one closing and at most one
\* opening order, the closing one first; orders are placed only by the
\* Execute of a pending signal, and trade_count moves only there.
C29_AtMostCloseThenOpen ==
  [][LET orders == last_exec'.orders
     IN  /\ Cardinality(RoleAt(orders, "close")) <= 1
         /\ Cardinality(RoleAt(orders, "open")) <= 1
         /\ Len(orders) <= 2
         /\ \A i \in RoleAt(orders, "close"), j \in RoleAt(orders, "open") : i < j
         /\ (orders # <<>> /\ last_exec' # last_exec) =>
              (SignalExecuted /\ last_exec'.signal = pending_signal)
         /\ ~SignalExecuted => trade_count' = trade_count]_vars

\* an Execute that placed a closing order and then an opening order
C29_Witness ==
  /\ Len(last_exec.orders) = 2
  /\ last_exec.orders[1].role = "close" /\ last_exec.orders[2].role = "open"
  /\ last_exec.signal # "NONE" /\ pc = "status"

\* the start of the candle that is still forming at this clock reading
FormingStart == (now \div EmaTf) * EmaTf

\* C30: EMA variant: whatever list of at least two candles the venue returns,
\* get_latest_candle returns nothing or a candle that started before the
\* forming candle.
C30_NeverAFormingCandle ==
  (variant = "ema" /\ pc = "check") =>
    \A times \in SUBSET EmaCandidates(now), close \in Closes :
      LET c == get_latest_candle(TRUE, times, close, now)
      IN  c = NoCandle \/ c.time < FormingStart

\* the same when the list holds a candle that started before the forming
\* one: what the code achieves
C30_CompletedWhenListed ==
  (variant = "ema" /\ pc = "check") =>
    \A times \in SUBSET EmaCandidates(now), close \in Closes :
      LET c == get_latest_candle(TRUE, times, close, now)
      IN  (\E x \in times : x < FormingStart) =>
            (c = NoCandle \/ c.time < FormingStart)

====
